---- MODULE Spec2Model ----
(***************************************************************************)
(* Model of bf-decoder.py: sanitize, build_bracket_map and the            *)
(* BrainfuckInterpreter class (constructor and run's dispatch loop).      *)
(*                                                                         *)
(* A Python str is a sequence of characters; a character is named by a    *)
(* string ("+", "h", "NUL", "U+20AC").  A str of length 1 is a one-element *)
(* sequence.  Python positions are 0-based and are kept 0-based here:     *)
(* Item(s, i) is Python's s[i].                                            *)
(***************************************************************************)
EXTENDS Integers, Sequences, FiniteSets, TLC

(* ------------------------------------------------------------------ *)
(* Bounds of the model                                                 *)
(* ------------------------------------------------------------------ *)
MaxTape == 2         \* largest tape_size
MaxSteps == 5        \* largest max_steps
MaxRuns == 2         \* calls of run on one instance
MaxTextLen == 3      \* longest text handed to sanitize alone
MaxBracketLen == 5   \* longest program handed to build_bracket_map alone
MaxCtorTape == 8     \* largest |tape_size| handed to the constructor alone
MaxCatLen == 2       \* longest enumerated input of the cat program

(* ------------------------------------------------------------------ *)
(* Python values                                                       *)
(* ------------------------------------------------------------------ *)
None == [exc |-> "None"]
NoValue == <<"no value">>

\* code points of the characters the model uses (ord's table)
CharCode ==
  ("+" :> 43) @@ ("," :> 44) @@ ("-" :> 45) @@ ("." :> 46) @@ ("<" :> 60) @@
  (">" :> 62) @@ ("[" :> 91) @@ ("]" :> 93) @@ ("!" :> 33) @@ ("a" :> 97) @@
  ("h" :> 104) @@ ("i" :> 105) @@ ("NUL" :> 0) @@ ("SOH" :> 1) @@
  ("U+00FF" :> 255) @@ ("U+20AC" :> 8364)

\* a variant that keeps only the low byte of the code point
ordByte(s) == CharCode[s[1]] % 256

\* ord(s) for a str s of length 1
ord(s) == CharCode[s[1]]

\* chr(n): the str of length 1 holding the character of code point n
chr(n) ==
  IF \E c \in DOMAIN CharCode : CharCode[c] = n
  THEN << CHOOSE c \in DOMAIN CharCode : CharCode[c] = n >>
  ELSE << "chr(" \o ToString(n) \o ")" >>

\* s[i] for a Python list or str s, 0-based
Item(s, i) == s[i + 1]

\* "".join(parts) for a list of strs
RECURSIVE join(_)
join(parts) ==
  IF parts = <<>> THEN <<>> ELSE Head(parts) \o join(Tail(parts))

\* all texts of length at most n over the characters A
Texts(A, n) == UNION { [1..k -> A] : k \in 0..n }

(* ------------------------------------------------------------------ *)
(* sanitize                                                            *)
(* ------------------------------------------------------------------ *)
\* a variant that forgets ','
BF_CHARS_NoComma == {"+", "-", "<", ">", "[", "]", "."}

BF_CHARS == {"+", "-", "<", ">", "[", "]", ",", "."}

RECURSIVE sanitize(_)
sanitize(program) ==
  IF program = <<>> THEN <<>>
  ELSE (IF Head(program) \in BF_CHARS THEN <<Head(program)>> ELSE <<>>)
       \o sanitize(Tail(program))

(* ------------------------------------------------------------------ *)
(* build_bracket_map                                                   *)
(* ------------------------------------------------------------------ *)
SyntaxError(msg, pos) == [exc |-> "SyntaxError", msg |-> msg, pos |-> pos]

\* a variant reporting the oldest entry of the stack
StackBottom(stack) == stack[1]

\* stack[-1]
StackTop(stack) == stack[Len(stack)]

\* a variant popping the oldest entry (pop(0))
PopFirst(stack) == [value |-> stack[1], rest |-> Tail(stack)]

\* stack.pop(): the value popped and the list left
Pop(stack) == [value |-> stack[Len(stack)], rest |-> SubSeq(stack, 1, Len(stack) - 1)]

\* a variant reporting a 1-based position
ClosePosOneBased(pos) == pos + 1

\* the position reported for an unmatched ']'
ClosePos(pos) == pos

\* a variant that forgets the entry of the ']'
RecordOpenOnly(bmap, start, pos) == (start :> pos) @@ bmap

\* lines 39-40: both entries of a pair
Record(bmap, start, pos) == (pos :> start) @@ (start :> pos) @@ bmap

\* the for loop of build_bracket_map from position pos on, and what follows it
RECURSIVE ScanBrackets(_, _, _, _)
ScanBrackets(program, pos, stack, bmap) ==
  IF pos >= Len(program)
  THEN IF stack # <<>>
       THEN [raised |-> SyntaxError("Unmatched '['", StackTop(stack)), value |-> NoValue]
       ELSE [raised |-> None, value |-> bmap]
  ELSE LET ch == Item(program, pos) IN
       IF ch = "["
       THEN ScanBrackets(program, pos + 1, Append(stack, pos), bmap)
       ELSE IF ch = "]"
       THEN IF stack = <<>>
            THEN [raised |-> SyntaxError("Unmatched ']'", ClosePos(pos)), value |-> NoValue]
            ELSE LET start == Pop(stack).value IN
                 ScanBrackets(program, pos + 1, Pop(stack).rest,
                              Record(bmap, start, pos))
       ELSE ScanBrackets(program, pos + 1, stack, bmap)

build_bracket_map(program) == ScanBrackets(program, 0, <<>>, <<>>)

(* ------------------------------------------------------------------ *)
(* State                                                               *)
(* ------------------------------------------------------------------ *)
VARIABLES
  pc,           \* "new", "config_error", "idle", "running", "returned", "raised"
  tape,         \* self.tape
  ptr,          \* self.ptr
  max_steps,    \* self.max_steps
  program,      \* run: program after sanitize   (the locals of the running
  inbuf,        \* run: inbuf                     call of run; between calls
  bracket_map,  \* run: bracket_map               there is no frame and they
  ip,           \* run: ip                        hold their initial values)
  steps,        \* run: steps
  out_chars,    \* run: out_chars
  in_idx,       \* run: in_idx
  returned,     \* the value the last call returned to its caller, or NoValue
  raised,       \* the exception the last call raised, or None
  runs,         \* number of calls of run made on the instance
  arg,          \* sanitize / build_bracket_map alone: the argument
  res,          \* sanitize / build_bracket_map alone: the last result
  calls,        \* sanitize / build_bracket_map alone: number of applications
  other         \* two callers of one instance: the frame of the caller that
                \* is not scheduled

self == <<tape, ptr, max_steps>>
locals == <<program, inbuf, bracket_map, ip, steps, out_chars, in_idx>>
harness == <<arg, res, calls, other>>
vars == <<pc, tape, ptr, max_steps, program, inbuf, bracket_map, ip, steps,
          out_chars, in_idx, returned, raised, runs, arg, res, calls, other>>

\* the frame of a caller that has not called run
NoCall ==
  [pc |-> "idle", program |-> <<>>, inbuf |-> <<>>, bracket_map |-> <<>>,
   ip |-> 0, steps |-> 0, out_chars |-> <<>>, in_idx |-> 0,
   returned |-> NoValue, raised |-> None]

(* ------------------------------------------------------------------ *)
(* Inputs                                                              *)
(* ------------------------------------------------------------------ *)
\* the eight commands and one character of noise
ProgAlphabet == {"+", "-", "<", ">", "[", "]", ".", ",", "!"}

NamedPrograms ==
  { <<"+", "[", "]">>,                                    \* "+[]"
    <<",", "[", ".", ",", "]">>,                          \* ",[.,]"
    <<"[", "[", "]">>,                                    \* "[[]"
    <<"[", "]", "]">>,                                    \* "[]]"
    <<"<", "!", "-", "-", "+", "+", ">", "-", "-", ">">>, \* "<!--++>-->"
    <<"+", "[", "-", "]">>,                               \* "+[-]"
    <<"+", ".", "[", "]">>,                               \* "+.[]"
    <<"[", ".", "]">>,                                    \* "[.]"
    <<"-", ".">>,                                         \* "-."
    <<",", ".">>,                                         \* ",."
    <<",", "+">>,                                         \* ",+"
    <<",", ",", ",">>,                                    \* ",,,"
    <<"<", "+", ">">>,                                    \* "<+>"
    <<">", ">", "<">>,                                    \* ">><"
    <<"+", "[", ">", "]">>,                               \* "+[>]"
    <<"a", "+", "!", ".">>                                \* "a+!."
  }

\* the empty program, every one-character program and the named programs
Programs == {<<>>} \cup { <<c>> : c \in ProgAlphabet } \cup NamedPrograms

Inputs == { <<>>, <<"h", "i">>, <<"NUL", "h">>, <<"U+20AC">> }

TapeSizes == (-1)..MaxTape

StepLimits == 0..MaxSteps

(* ------------------------------------------------------------------ *)
(* BrainfuckInterpreter.__init__                                       *)
(* ------------------------------------------------------------------ *)
ValueError == [exc |-> "ValueError", msg |-> "tape_size debe ser > 0"]

Init ==
  /\ pc = "new"
  /\ tape = <<>> /\ ptr = 0 /\ max_steps = 0
  /\ program = <<>> /\ inbuf = <<>> /\ bracket_map = <<>>
  /\ ip = 0 /\ steps = 0 /\ out_chars = <<>> /\ in_idx = 0
  /\ returned = NoValue /\ raised = None /\ runs = 0
  /\ arg = <<>> /\ res = <<>> /\ calls = 0
  /\ other = NoCall

\* a variant that lets a tape of no cells through
BadTapeSizeNegative(tape_size) == tape_size < 0

\* line 47
BadTapeSize(tape_size) == tape_size <= 0

ConstructFail(tape_size, ms) ==
  /\ pc = "new"
  /\ BadTapeSize(tape_size)
  /\ raised' = ValueError
  /\ pc' = "config_error"
  /\ UNCHANGED <<self, locals, returned, runs, harness>>

Construct(tape_size, ms) ==
  /\ pc = "new"
  /\ ~BadTapeSize(tape_size)
  /\ tape' = [i \in 1..tape_size |-> 0]
  /\ ptr' = 0
  /\ max_steps' = ms
  /\ pc' = "idle"
  /\ UNCHANGED <<locals, returned, raised, runs, harness>>

(* ------------------------------------------------------------------ *)
(* BrainfuckInterpreter.run                                            *)
(* ------------------------------------------------------------------ *)
RuntimeError(m) == [exc |-> "RuntimeError", msg |-> "Max steps superado", limit |-> m]

\* a variant that hands the partial output to the caller
RaiseWithOutput(e) ==
  /\ raised' = e
  /\ returned' = join(out_chars)
  /\ pc' = "raised"

\* an exception leaves the call: the caller gets the exception and no value
Raise(e) ==
  /\ raised' = e
  /\ returned' = NoValue
  /\ pc' = "raised"

Callable == pc \in {"idle", "returned", "raised"} /\ runs < MaxRuns

\* a variant of run that clears the tape on entry
BracketFailureAfterReset(e) ==
  /\ Raise(e)
  /\ tape' = [i \in 1..Len(tape) |-> 0]
  /\ ptr' = 0
  /\ UNCHANGED <<max_steps, locals, harness>>

\* line 55 raises: nothing of the instance has been touched
BracketFailure(e) ==
  /\ Raise(e)
  /\ UNCHANGED <<self, locals, harness>>

\* the frame of run is gone once the call has ended
DiscardLocals ==
  /\ program' = <<>> /\ inbuf' = <<>> /\ bracket_map' = <<>>
  /\ ip' = 0 /\ steps' = 0 /\ out_chars' = <<>> /\ in_idx' = 0

\* lines 53-61: a call of run up to the start of the dispatch loop; an
\* exception of build_bracket_map (line 55) leaves run at once
RunCall(p, inp) ==
  /\ Callable
  /\ runs' = runs + 1
  /\ LET prog == sanitize(p)
         r == build_bracket_map(prog)
     IN IF r.raised # None
        THEN BracketFailure(r.raised)
        ELSE /\ program' = prog
             /\ bracket_map' = r.value
             /\ inbuf' = inp
             /\ ip' = 0
             /\ steps' = 0
             /\ out_chars' = <<>>
             /\ in_idx' = 0
             /\ returned' = NoValue
             /\ raised' = None
             /\ pc' = "running"
             /\ UNCHANGED <<self, harness>>

tape_len == Len(tape)

CellModulus == 256

\* a variant that allows one step too many
LimitReachedLate(s, m) == s > m

\* line 64
LimitReached(s, m) == s >= m

\* lines 63, 100: the loop condition fails, run returns
Return ==
  /\ pc = "running"
  /\ ~(ip < Len(program))
  /\ returned' = join(out_chars)
  /\ pc' = "returned"
  /\ DiscardLocals
  /\ UNCHANGED <<self, raised, runs, harness>>

\* lines 64-68
StepLimit ==
  /\ pc = "running"
  /\ ip < Len(program)
  /\ LimitReached(steps, max_steps)
  /\ Raise(RuntimeError(max_steps))
  /\ DiscardLocals
  /\ UNCHANGED <<self, runs, harness>>

\* a variant that does not count
CountStepNot(s) == s

\* line 69
CountStep(s) == s + 1

\* lines 63-71: an instruction is fetched and counted
Fetch(c) ==
  /\ pc = "running"
  /\ ip < Len(program)
  /\ ~LimitReached(steps, max_steps)
  /\ Item(program, ip) = c
  /\ steps' = CountStep(steps)

\* a variant that stops at the last cell instead of wrapping
PtrRightClamp(p, n) == IF p + 1 >= n THEN n - 1 ELSE p + 1

\* lines 73-75
PtrRight(p, n) == IF p + 1 >= n THEN 0 ELSE p + 1

\* lines 77-79
PtrLeft(p, n) == IF p - 1 < 0 THEN n - 1 ELSE p - 1

OpRight ==
  /\ Fetch(">")
  /\ ptr' = PtrRight(ptr, tape_len)
  /\ ip' = ip + 1
  /\ UNCHANGED <<tape, max_steps, program, inbuf, bracket_map, out_chars, in_idx,
                 returned, raised, pc, runs, harness>>

OpLeft ==
  /\ Fetch("<")
  /\ ptr' = PtrLeft(ptr, tape_len)
  /\ ip' = ip + 1
  /\ UNCHANGED <<tape, max_steps, program, inbuf, bracket_map, out_chars, in_idx,
                 returned, raised, pc, runs, harness>>

\* line 81
IncCell(v) == (v + 1) % CellModulus

\* a variant with a remainder that keeps the sign of v - 1
DecCellTruncating(v) == IF v - 1 < 0 THEN v - 1 ELSE (v - 1) % CellModulus

\* line 83
DecCell(v) == (v - 1) % CellModulus

OpInc ==
  /\ Fetch("+")
  /\ tape' = [tape EXCEPT ![ptr + 1] = IncCell(Item(tape, ptr))]
  /\ ip' = ip + 1
  /\ UNCHANGED <<ptr, max_steps, program, inbuf, bracket_map, out_chars, in_idx,
                 returned, raised, pc, runs, harness>>

OpDec ==
  /\ Fetch("-")
  /\ tape' = [tape EXCEPT ![ptr + 1] = DecCell(Item(tape, ptr))]
  /\ ip' = ip + 1
  /\ UNCHANGED <<ptr, max_steps, program, inbuf, bracket_map, out_chars, in_idx,
                 returned, raised, pc, runs, harness>>

\* line 85
OpOut ==
  /\ Fetch(".")
  /\ out_chars' = Append(out_chars, chr(Item(tape, ptr)))
  /\ ip' = ip + 1
  /\ UNCHANGED <<self, program, inbuf, bracket_map, in_idx,
                 returned, raised, pc, runs, harness>>

\* a variant that reads the same character again
InIdxStuck(i) == i

\* line 89
NextInIdx(i) == i + 1

\* lines 87-91
OpIn ==
  /\ Fetch(",")
  /\ IF in_idx < Len(inbuf)
     THEN /\ tape' = [tape EXCEPT ![ptr + 1] = ord(<<Item(inbuf, in_idx)>>)]
          /\ in_idx' = NextInIdx(in_idx)
     ELSE /\ tape' = [tape EXCEPT ![ptr + 1] = 0]
          /\ in_idx' = in_idx
  /\ ip' = ip + 1
  /\ UNCHANGED <<ptr, max_steps, program, inbuf, bracket_map, out_chars,
                 returned, raised, pc, runs, harness>>

\* a variant that skips the loop on a non-zero cell
SkipsLoopInverted(v) == v # 0

\* line 93
SkipsLoop(v) == v = 0

\* a variant that repeats the loop on a zero cell
RepeatsLoopInverted(v) == v = 0

\* line 96
RepeatsLoop(v) == v # 0

\* lines 93-94, 98
OpOpen ==
  /\ Fetch("[")
  /\ ip' = (IF SkipsLoop(Item(tape, ptr)) THEN bracket_map[ip] ELSE ip) + 1
  /\ UNCHANGED <<self, program, inbuf, bracket_map, out_chars, in_idx,
                 returned, raised, pc, runs, harness>>

\* a variant in which a taken jump is not followed by the advance of line 98
OpCloseNoAdvance ==
  /\ Fetch("]")
  /\ ip' = (IF RepeatsLoop(Item(tape, ptr)) THEN bracket_map[ip] ELSE ip + 1)
  /\ UNCHANGED <<self, program, inbuf, bracket_map, out_chars, in_idx,
                 returned, raised, pc, runs, harness>>

\* lines 96-98
OpClose ==
  /\ Fetch("]")
  /\ ip' = (IF RepeatsLoop(Item(tape, ptr)) THEN bracket_map[ip] ELSE ip) + 1
  /\ UNCHANGED <<self, program, inbuf, bracket_map, out_chars, in_idx,
                 returned, raised, pc, runs, harness>>

Next ==
  \/ \E ts \in TapeSizes, ms \in StepLimits : ConstructFail(ts, ms)
  \/ \E ts \in TapeSizes, ms \in StepLimits : Construct(ts, ms)
  \/ \E p \in Programs, inp \in Inputs : RunCall(p, inp)
  \/ Return
  \/ StepLimit
  \/ OpRight
  \/ OpLeft
  \/ OpInc
  \/ OpDec
  \/ OpOut
  \/ OpIn
  \/ OpOpen
  \/ OpClose

Spec == Init /\ [][Next]_vars

\* one iteration of the while loop of run, or its exit (lines 63-100)
Dispatch ==
  \/ Return
  \/ StepLimit
  \/ OpRight
  \/ OpLeft
  \/ OpInc
  \/ OpDec
  \/ OpOut
  \/ OpIn
  \/ OpOpen
  \/ OpClose

\* run is a synchronous call: once entered, its loop keeps going
SpecFair == Spec /\ WF_vars(Dispatch)

(* ------------------------------------------------------------------ *)
(* runs of the cat program ",[.,]" with step limits that let it finish *)
(* ------------------------------------------------------------------ *)
Cat == <<",", "[", ".", ",", "]">>

CatInputs ==
  Texts({"h", "i"}, MaxCatLen) \cup { <<"U+20AC">>, <<"h", "NUL", "i">> }

\* up to the steps cat needs on the longest enumerated input
CatStepLimits == 0..(3 * MaxCatLen + 2)

NextCat ==
  \/ \E ts \in TapeSizes, ms \in CatStepLimits : ConstructFail(ts, ms)
  \/ \E ts \in TapeSizes, ms \in CatStepLimits : Construct(ts, ms)
  \/ \E inp \in CatInputs : RunCall(Cat, inp)
  \/ Return
  \/ StepLimit
  \/ OpOut
  \/ OpIn
  \/ OpOpen
  \/ OpClose

SpecCat == Init /\ [][NextCat]_vars

(* ------------------------------------------------------------------ *)
(* two callers of run on one instance, interleaved at the iterations   *)
(* of the dispatch loop: the variables of run hold the frame of the    *)
(* scheduled caller, other holds the frame of the suspended one, and   *)
(* tape, ptr and max_steps are the instance's (self.tape, self.ptr)    *)
(* ------------------------------------------------------------------ *)
ConcCalls ==
  { << <<"+", ".">>, <<>> >>,
    << <<".">>, <<>> >>,
    << <<",", ".">>, <<"h">> >>,
    << <<",", ".">>, <<>> >>,
    << <<"+", "[", "-", "]">>, <<>> >>,
    << <<">", "-", "<">>, <<>> >> }

InitConc ==
  /\ pc = "idle"
  /\ tape \in { [i \in 1..n |-> 0] : n \in 1..MaxTape }
  /\ ptr = 0
  /\ max_steps \in StepLimits
  /\ program = <<>> /\ inbuf = <<>> /\ bracket_map = <<>>
  /\ ip = 0 /\ steps = 0 /\ out_chars = <<>> /\ in_idx = 0
  /\ returned = NoValue /\ raised = None /\ runs = 0
  /\ arg = <<>> /\ res = <<>> /\ calls = 0
  /\ other = NoCall

\* each caller calls run once
ThreadCall(p, inp) ==
  /\ pc = "idle"
  /\ RunCall(p, inp)

\* the scheduler suspends the running caller and resumes the other one
Switch ==
  /\ other' = [pc |-> pc, program |-> program, inbuf |-> inbuf,
               bracket_map |-> bracket_map, ip |-> ip, steps |-> steps,
               out_chars |-> out_chars, in_idx |-> in_idx,
               returned |-> returned, raised |-> raised]
  /\ pc' = other.pc
  /\ program' = other.program
  /\ inbuf' = other.inbuf
  /\ bracket_map' = other.bracket_map
  /\ ip' = other.ip
  /\ steps' = other.steps
  /\ out_chars' = other.out_chars
  /\ in_idx' = other.in_idx
  /\ returned' = other.returned
  /\ raised' = other.raised
  /\ UNCHANGED <<self, runs, arg, res, calls>>

NextConc ==
  \/ \E c \in ConcCalls : ThreadCall(c[1], c[2])
  \/ Dispatch
  \/ Switch

SpecConc == InitConc /\ [][NextConc]_vars

(* ------------------------------------------------------------------ *)
(* run as a function: the outcome of one call that nothing interleaves *)
(* with, on an instance just constructed with tape_size cells          *)
(* ------------------------------------------------------------------ *)
RECURSIVE RunLoop(_, _, _, _, _)
RunLoop(prog, bmap, inp, m, s) ==
  IF ~(s.ip < Len(prog))
  THEN [returned |-> join(s.out_chars), raised |-> None]
  ELSE IF LimitReached(s.steps, m)
  THEN [returned |-> NoValue, raised |-> RuntimeError(m)]
  ELSE
    LET c == Item(prog, s.ip)
        v == Item(s.tape, s.ptr)
        n == Len(s.tape)
        t == [s EXCEPT !.steps = CountStep(@)]
        u == CASE c = ">" -> [t EXCEPT !.ptr = PtrRight(@, n)]
               [] c = "<" -> [t EXCEPT !.ptr = PtrLeft(@, n)]
               [] c = "+" -> [t EXCEPT !.tape[s.ptr + 1] = IncCell(v)]
               [] c = "-" -> [t EXCEPT !.tape[s.ptr + 1] = DecCell(v)]
               [] c = "." -> [t EXCEPT !.out_chars = Append(@, chr(v))]
               [] c = "," ->
                    IF s.in_idx < Len(inp)
                    THEN [t EXCEPT !.tape[s.ptr + 1] = ord(<<Item(inp, s.in_idx)>>),
                                   !.in_idx = NextInIdx(@)]
                    ELSE [t EXCEPT !.tape[s.ptr + 1] = 0]
               [] c = "[" -> [t EXCEPT !.ip = IF SkipsLoop(v) THEN bmap[@] ELSE @]
               [] c = "]" -> [t EXCEPT !.ip = IF RepeatsLoop(v) THEN bmap[@] ELSE @]
    IN RunLoop(prog, bmap, inp, m, [u EXCEPT !.ip = @ + 1])

RunAlone(p, inp, tape_size, m) ==
  LET prog == sanitize(p)
      r == build_bracket_map(prog)
  IN IF r.raised # None
     THEN [returned |-> NoValue, raised |-> r.raised]
     ELSE RunLoop(prog, r.value, inp, m,
                  [tape |-> [i \in 1..tape_size |-> 0], ptr |-> 0, ip |-> 0,
                   steps |-> 0, out_chars |-> <<>>, in_idx |-> 0])

(* ------------------------------------------------------------------ *)
(* the constructor alone: arg holds <<tape_size, max_steps>>           *)
(* ------------------------------------------------------------------ *)
CtorTapeSizes == (-MaxCtorTape)..MaxCtorTape

InitCtor ==
  /\ pc = "new"
  /\ arg \in CtorTapeSizes \X StepLimits
  /\ res = <<>> /\ calls = 0
  /\ other = NoCall
  /\ tape = <<>> /\ ptr = 0 /\ max_steps = 0
  /\ program = <<>> /\ inbuf = <<>> /\ bracket_map = <<>>
  /\ ip = 0 /\ steps = 0 /\ out_chars = <<>> /\ in_idx = 0
  /\ returned = NoValue /\ raised = None /\ runs = 0

NextCtor ==
  \/ ConstructFail(arg[1], arg[2])
  \/ Construct(arg[1], arg[2])

SpecCtor == InitCtor /\ [][NextCtor]_vars

(* ------------------------------------------------------------------ *)
(* sanitize alone: applied to a text, then to its own result           *)
(* ------------------------------------------------------------------ *)
\* the eight commands and two characters of noise
TextAlphabet == {"+", "-", "<", ">", "[", "]", ".", ",", "!", "a"}

InitSan ==
  /\ pc = "sanitize"
  /\ arg \in Texts(TextAlphabet, MaxTextLen)
  /\ res = arg
  /\ calls = 0
  /\ other = NoCall
  /\ tape = <<>> /\ ptr = 0 /\ max_steps = 0
  /\ program = <<>> /\ inbuf = <<>> /\ bracket_map = <<>>
  /\ ip = 0 /\ steps = 0 /\ out_chars = <<>> /\ in_idx = 0
  /\ returned = NoValue /\ raised = None /\ runs = 0

SanitizeCall ==
  /\ pc = "sanitize"
  /\ calls < 2
  /\ res' = sanitize(res)
  /\ calls' = calls + 1
  /\ UNCHANGED <<pc, self, locals, returned, raised, runs, arg, other>>

NextSan == SanitizeCall

SpecSan == InitSan /\ [][NextSan]_vars

(* ------------------------------------------------------------------ *)
(* build_bracket_map alone, on sanitized programs                      *)
(* ------------------------------------------------------------------ *)
BracketAlphabet == {"[", "]", "+"}

InitBM ==
  /\ pc = "build_bracket_map"
  /\ arg \in Texts(BracketAlphabet, MaxBracketLen)
  /\ res = [raised |-> None, value |-> NoValue]
  /\ calls = 0
  /\ other = NoCall
  /\ tape = <<>> /\ ptr = 0 /\ max_steps = 0
  /\ program = <<>> /\ inbuf = <<>> /\ bracket_map = <<>>
  /\ ip = 0 /\ steps = 0 /\ out_chars = <<>> /\ in_idx = 0
  /\ returned = NoValue /\ raised = None /\ runs = 0

BuildCall ==
  /\ pc = "build_bracket_map"
  /\ calls = 0
  /\ res' = build_bracket_map(arg)
  /\ calls' = 1
  /\ UNCHANGED <<pc, self, locals, returned, raised, runs, arg, other>>

NextBM == BuildCall

SpecBM == InitBM /\ [][NextBM]_vars

(* ------------------------------------------------------------------ *)
(* Vocabulary of the properties                                        *)
(* ------------------------------------------------------------------ *)
\* the eight command characters, as the specification lists them
CommandChars == {"+", "-", "<", ">", "[", "]", ".", ","}

\* number of occurrences of c in t at the 0-based positions lo..hi
Count(t, c, lo, hi) == Cardinality({ k \in lo..hi : Item(t, k) = c })

\* opens minus closes in t at the positions lo..hi
Depth(t, lo, hi) == Count(t, "[", lo, hi) - Count(t, "]", lo, hi)

\* t is balanced between the positions lo and hi (an empty range is balanced)
Balanced(t, lo, hi) ==
  /\ \A k \in lo..hi : Depth(t, lo, k) >= 0
  /\ Depth(t, lo, hi) = 0

WellFormed(t) == Balanced(t, 0, Len(t) - 1)

\* i is the first position at which a ']' occurs while no '[' is open
FirstUnderflow(t, i) ==
  /\ i \in 0..(Len(t) - 1)
  /\ Depth(t, 0, i) < 0
  /\ \A k \in 0..(i - 1) : Depth(t, 0, k) >= 0

NoUnderflow(t) == \A k \in 0..(Len(t) - 1) : Depth(t, 0, k) >= 0

\* positions of the '[' of t that no later ']' closes
Unclosed(t) ==
  { p \in 0..(Len(t) - 1) :
      Item(t, p) = "[" /\ \A q \in p..(Len(t) - 1) : Depth(t, p, q) > 0 }

Largest(S) == CHOOSE x \in S : \A y \in S : y <= x

\* the positions of t holding a command character, and the k-th of them
CommandPositions(t) == { i \in 1..Len(t) : t[i] \in CommandChars }

KthCommand(t, k) ==
  CHOOSE i \in CommandPositions(t) :
    Cardinality({ j \in CommandPositions(t) : j < i }) = k - 1

\* r is t with everything but the command characters dropped, order kept
IsCommandSubsequence(t, r) ==
  /\ Len(r) = Cardinality(CommandPositions(t))
  /\ \A k \in 1..Len(r) : r[k] = t[KthCommand(t, k)]

Constructed == pc \in {"idle", "running", "returned", "raised"}

\* the dispatch loop executes the instruction c in this step
Executes(c) ==
  /\ pc = "running"
  /\ ip < Len(program)
  /\ steps' = steps + 1
  /\ Item(program, ip) = c

\* the errors build_bracket_map raises on the programs of the model
BracketErrors ==
  { build_bracket_map(sanitize(p)).raised : p \in Programs } \ {None}

(* ------------------------------------------------------------------ *)
(* Properties                                                          *)
(* ------------------------------------------------------------------ *)

\* C1: run fails with the step-limit error exactly when the instruction
\* pointer is not at the end of the program once max_steps instructions have
\* been executed: with fewer executed it goes on, at the end it returns, and
\* the error carries max_steps.
C1_StepLimitExact ==
  /\ [](pc = "running" => steps <= max_steps)
  /\ [][(pc = "running" /\ ip < Len(program) /\ steps = max_steps)
          => (pc' = "raised" /\ raised' = RuntimeError(max_steps))]_vars
  /\ [][(pc = "running" /\ ip < Len(program) /\ steps < max_steps)
          => (pc' = "running" /\ steps' = steps + 1)]_vars
  /\ [][(pc = "running" /\ ~(ip < Len(program)))
          => (pc' = "returned" /\ raised' = None)]_vars
  /\ [][(pc' = "raised" /\ raised'.exc = "RuntimeError")
          => (pc = "running" /\ steps = max_steps /\ ip < Len(program))]_vars

\* a run that needed exactly max_steps (at least four) steps, loop included,
\* has executed them all and is at the end of its program
C1_Witness ==
  /\ pc = "running"
  /\ steps = max_steps
  /\ steps >= 4
  /\ ip = Len(program)
  /\ "]" \in { program[i] : i \in 1..Len(program) }

\* C2: a call of run ends either with the full accumulated output and no
\* error, or with one classified error and no value at all; a failure hands
\* no part of the output to the caller.
C2_OutputXorError ==
  /\ [](pc = "returned" => (raised = None /\ returned # NoValue))
  /\ [](pc = "raised" =>
          /\ returned = NoValue
          /\ raised # None
          /\ \/ raised.exc = "RuntimeError"
             \/ (raised.exc = "SyntaxError"
                 /\ raised.msg \in {"Unmatched '['", "Unmatched ']'"}))
  /\ [][(pc = "running" /\ pc' = "returned")
          => (returned' = join(out_chars) /\ Len(returned') = Len(out_chars))]_vars
  /\ [][(pc = "running" /\ pc' = "raised") => returned' = NoValue]_vars

\* the step limit is reached after a '.' has produced output
C2_Witness ==
  /\ pc = "running"
  /\ out_chars # <<>>
  /\ ip < Len(program)
  /\ steps >= max_steps

\* C3: whenever the dispatch loop of a run begins, every tape cell is 0 and
\* the cursor is 0, also on an instance that has run before.
C3_FreshTapeAtLoopStart ==
  (pc = "running" /\ steps = 0) =>
    ((\A i \in 1..Len(tape) : tape[i] = 0) /\ ptr = 0)

\* C4: every tape cell holds an unsigned 8-bit value.
C4_CellsAreBytes ==
  \A i \in 1..Len(tape) : tape[i] \in 0..255

\* C5: the cursor stays in [0, tape_size): '>' at the last cell moves it to
\* 0, '<' at 0 moves it to the last cell, any other move changes it by one,
\* no other instruction moves it; with one cell it stays at 0.
C5_CursorWraps ==
  /\ [](Constructed => ptr \in 0..(Len(tape) - 1))
  /\ [](Constructed /\ Len(tape) = 1 => ptr = 0)
  /\ [][Executes(">") =>
          ptr' = (IF ptr = Len(tape) - 1 THEN 0 ELSE ptr + 1)]_vars
  /\ [][Executes("<") =>
          ptr' = (IF ptr = 0 THEN Len(tape) - 1 ELSE ptr - 1)]_vars
  /\ [][(\E c \in CommandChars \ {">", "<"} : Executes(c)) => ptr' = ptr]_vars

\* '>' executed at the last of two cells has brought the cursor to 0
C5_Witness ==
  /\ pc = "running"
  /\ Len(tape) = 2
  /\ program = <<">", ">", "<">>
  /\ ip = 2
  /\ ptr = 0
  /\ tape = <<0, 0>>

\* C6: on a well-formed program build_bracket_map succeeds; the keys of the
\* map are exactly the bracket positions, the map is symmetric, and each
\* '[' is paired with the later ']' that leaves a balanced text in between.
C6_MapOfWellFormed ==
  (calls = 1 /\ WellFormed(arg)) =>
    /\ res.raised = None
    /\ DOMAIN res.value =
         { p \in 0..(Len(arg) - 1) : Item(arg, p) \in {"[", "]"} }
    /\ \A p \in DOMAIN res.value : res.value[res.value[p]] = p
    /\ \A p \in DOMAIN res.value :
         Item(arg, p) = "[" =>
           /\ res.value[p] > p
           /\ Item(arg, res.value[p]) = "]"
           /\ Balanced(arg, p + 1, res.value[p] - 1)

\* a map with a nested pair and a pair after it
C6_Witness ==
  /\ calls = 1
  /\ arg = <<"[", "[", "]", "]", "+">> \/ arg = <<"[", "[", "]", "]">>
  /\ res.raised = None
  /\ res.value[0] = 3
  /\ res.value[2] = 1

\* C7: build_bracket_map fails with the unmatched-close error carrying i
\* exactly when i is the first position at which a ']' occurs while no '['
\* is open, whatever follows that position.
C7_UnmatchedCloseFirst ==
  calls = 1 =>
    /\ \A i \in 0..(Len(arg) - 1) :
         (res.raised = SyntaxError("Unmatched ']'", i)) <=> FirstUnderflow(arg, i)
    /\ (res.raised # None /\ res.raised.msg = "Unmatched ']'")
         => res.raised.pos \in 0..(Len(arg) - 1)
    /\ arg = <<"[", "]", "]">> => res.raised = SyntaxError("Unmatched ']'", 2)

\* the unmatched ']' is reported although an unclosed '[' follows it
C7_Witness ==
  /\ calls = 1
  /\ arg = <<"[", "]", "]", "[">>
  /\ res.raised = SyntaxError("Unmatched ']'", 2)

\* C8: when the scan meets no unmatched ']' and leaves a '[' unclosed,
\* build_bracket_map fails with the unmatched-open error carrying the
\* rightmost unclosed '['; for "[[]" that is position 0.
C8_UnmatchedOpenRightmost ==
  calls = 1 =>
    /\ (NoUnderflow(arg) /\ Unclosed(arg) # {})
         => res.raised = SyntaxError("Unmatched '['", Largest(Unclosed(arg)))
    /\ arg = <<"[", "[", "]">> => res.raised = SyntaxError("Unmatched '['", 0)

\* two '[' are left unclosed and the later one is reported
C8_Witness ==
  /\ calls = 1
  /\ arg = <<"[", "+", "[", "[", "]">>
  /\ res.raised = SyntaxError("Unmatched '['", 2)

\* C9: a call of run whose program has malformed brackets fails with the
\* error build_bracket_map raised, before any instruction executes, and
\* leaves tape, cursor, step counter and output as they were; the dispatch
\* loop begins only for well-formed programs.
C9_BracketErrorFrame ==
  /\ [][(pc # "running" /\ pc' = "raised") =>
          /\ raised' \in BracketErrors
          /\ returned' = NoValue
          /\ tape' = tape /\ ptr' = ptr /\ max_steps' = max_steps
          /\ steps' = steps /\ out_chars' = out_chars /\ steps' = 0]_vars
  /\ [][(pc # "running" /\ pc' = "running") =>
          (WellFormed(program') /\ steps' = 0 /\ out_chars' = <<>>)]_vars

\* a second call on an instance with a used tape has failed on its brackets
C9_Witness ==
  /\ pc = "raised"
  /\ runs = 2
  /\ raised.exc = "SyntaxError"
  /\ \E i \in 1..Len(tape) : tape[i] # 0

\* C10: sanitize returns exactly the command characters of its argument in
\* their order, for every text, and applying it to its own result changes
\* nothing.
C10_SanitizeFilter ==
  /\ [](calls >= 1 => IsCommandSubsequence(arg, res))
  /\ [](calls >= 1 => \A k \in 1..Len(res) : res[k] \in CommandChars)
  /\ [][calls = 1 => res' = res]_vars

\* a text with noise between commands has been sanitized twice
C10_Witness ==
  /\ calls = 2
  /\ arg = <<"+", "!", ",">>
  /\ res = <<"+", ",">>

\* the value in 0..255 that differs from n by a multiple of 256
Byte(n) == CHOOSE b \in 0..255 : \E k \in (-1)..40 : n = b + 256 * k

\* the position of the ']' that closes the '[' at position p of t
MatchClose(t, p) ==
  CHOOSE q \in (p + 1)..(Len(t) - 1) :
    Item(t, q) = "]" /\ Balanced(t, p + 1, q - 1)

\* the position of the '[' that the ']' at position q of t closes
MatchOpen(t, q) ==
  CHOOSE p \in 0..(q - 1) :
    Item(t, p) = "[" /\ Balanced(t, p + 1, q - 1)

\* the cell at the cursor
Cell == Item(tape, ptr)

\* C11: '+' replaces the value v of the cell at the cursor by (v + 1) mod
\* 256 and '-' replaces it by (v - 1 + 256) mod 256; no other cell and not
\* the cursor changes; 255 becomes 0 under '+', 0 becomes 255 under '-'.
C11_CellArithmetic ==
  /\ [][Executes("+") =>
          /\ tape' = [tape EXCEPT ![ptr + 1] = Byte(Cell + 1)]
          /\ (Cell = 255 => tape'[ptr + 1] = 0)
          /\ ptr' = ptr]_vars
  /\ [][Executes("-") =>
          /\ tape' = [tape EXCEPT ![ptr + 1] = Byte(Cell - 1 + 256)]
          /\ (Cell = 0 => tape'[ptr + 1] = 255)
          /\ ptr' = ptr]_vars

\* '+' has been executed on a cell that an earlier run left at 255
C11_Witness ==
  /\ pc = "running"
  /\ runs = 2
  /\ program = <<"+">>
  /\ ip = 1
  /\ Len(tape) = 2
  /\ tape = <<0, 0>>
  /\ ptr = 0
  /\ steps = 1

\* C15 as stated: after a taken '[' or ']' jump the instruction pointer is
\* left at the value the instruction set; otherwise it is advanced by one.
C15_JumpLeavesPointer ==
  /\ [][(Executes("[") /\ Cell = 0) => ip' = MatchClose(program, ip)]_vars
  /\ [][(Executes("]") /\ Cell # 0) => ip' = MatchOpen(program, ip)]_vars
  /\ [][(Executes("[") /\ Cell # 0) => ip' = ip + 1]_vars
  /\ [][(Executes("]") /\ Cell = 0) => ip' = ip + 1]_vars
  /\ [][(\E c \in CommandChars \ {"[", "]"} : Executes(c)) => ip' = ip + 1]_vars

\* C15: in each dispatch step the instruction pointer is advanced by one
\* after the instruction, also after a taken jump: a taken jump sets it to
\* the position of the matching bracket and the advance moves it one past.
C15_AdvanceAlways ==
  /\ [][(Executes("[") /\ Cell = 0) => ip' = MatchClose(program, ip) + 1]_vars
  /\ [][(Executes("]") /\ Cell # 0) => ip' = MatchOpen(program, ip) + 1]_vars
  /\ [][(Executes("[") /\ Cell # 0) => ip' = ip + 1]_vars
  /\ [][(Executes("]") /\ Cell = 0) => ip' = ip + 1]_vars
  /\ [][(\E c \in CommandChars \ {"[", "]"} : Executes(c)) => ip' = ip + 1]_vars

\* the ']' of "+[]" has jumped back: the pointer is one past the '['
C15_Witness ==
  /\ pc = "running"
  /\ program = <<"+", "[", "]">>
  /\ steps = 3
  /\ ip = 2
  /\ Cell = 1

\* C17: '[' on a zero cell continues right after its matching ']' (at the
\* end of the program when that ']' is the last token); tape, cursor,
\* output and input cursor are unchanged and one step is counted.
C17_SkipOnZero ==
  [][(Executes("[") /\ Cell = 0) =>
       /\ ip' = MatchClose(program, ip) + 1
       /\ ip' <= Len(program)
       /\ steps' = steps + 1
       /\ tape' = tape /\ ptr' = ptr
       /\ out_chars' = out_chars /\ in_idx' = in_idx
       /\ pc' = "running"]_vars

\* the loop of "[.]" has been skipped in one step, nothing was output
C17_Witness ==
  /\ pc = "running"
  /\ program = <<"[", ".", "]">>
  /\ ip = 3
  /\ steps = 1
  /\ out_chars = <<>>

\* C18: a bracket pair is a while-loop on the cell at the cursor: at ']'
\* the body is entered again exactly when the cell is non-zero, otherwise
\* the loop is left; at '[' the body is entered exactly when the cell is
\* non-zero, otherwise execution continues after the ']'.
C18_WhileLoop ==
  /\ [][Executes("]") =>
          ip' = (IF Cell # 0 THEN MatchOpen(program, ip) + 1 ELSE ip + 1)]_vars
  /\ [][Executes("[") =>
          ip' = (IF Cell # 0 THEN ip + 1 ELSE MatchClose(program, ip) + 1)]_vars
  /\ [][(Executes("[") \/ Executes("]")) =>
          (tape' = tape /\ ptr' = ptr /\ out_chars' = out_chars)]_vars

\* "+[-]" has gone through its body once and left the loop at the ']'
C18_Witness ==
  /\ pc = "running"
  /\ program = <<"+", "[", "-", "]">>
  /\ steps = 4
  /\ ip = 4
  /\ Cell = 0

\* C19: ',' consumes the input in order: while characters remain it stores
\* the code of the character at the input cursor and advances the cursor by
\* one; once the input is exhausted it stores 0 and leaves the cursor; no
\* other instruction moves the input cursor, which starts at 0 and never
\* exceeds the length of the input.
C19_InputInOrder ==
  /\ [](pc = "running" => in_idx \in 0..Len(inbuf))
  /\ [][(pc # "running" /\ pc' = "running") => in_idx' = 0]_vars
  /\ [][(Executes(",") /\ in_idx < Len(inbuf)) =>
          /\ tape' = [tape EXCEPT ![ptr + 1] = CharCode[inbuf[in_idx + 1]]]
          /\ in_idx' = in_idx + 1]_vars
  /\ [][(Executes(",") /\ ~(in_idx < Len(inbuf))) =>
          /\ tape' = [tape EXCEPT ![ptr + 1] = 0]
          /\ in_idx' = in_idx]_vars
  /\ [][(\E c \in CommandChars \ {","} : Executes(c)) => in_idx' = in_idx]_vars

\* the third ',' of ",,," has found the two-character input exhausted
C19_Witness ==
  /\ pc = "running"
  /\ program = <<",", ",", ",">>
  /\ inbuf = <<"h", "i">>
  /\ ip = 3
  /\ in_idx = 2
  /\ Cell = 0

\* C20: while the dispatch loop runs, 0 <= ip <= len(program), the token at
\* ip is one of the eight commands, a bracket at ip is a key of the bracket
\* map whose entry is a position of the program, and the cursor indexes the
\* tape; the only error the loop ends in is the step-limit error.
C20_LoopIsSafe ==
  /\ [](pc = "running" =>
          /\ ip \in 0..Len(program)
          /\ ptr \in 0..(Len(tape) - 1)
          /\ ip < Len(program) =>
               /\ Item(program, ip) \in CommandChars
               /\ Item(program, ip) \in {"[", "]"} =>
                    /\ ip \in DOMAIN bracket_map
                    /\ bracket_map[ip] \in 0..(Len(program) - 1))
  /\ [][(pc = "running" /\ pc' = "raised") => raised'.exc = "RuntimeError"]_vars

\* the ']' of "+[>]" has looked up its entry and gone back to the body
C20_Witness ==
  /\ pc = "running"
  /\ program = <<"+", "[", ">", "]">>
  /\ Len(tape) = 1
  /\ steps = 4
  /\ ip = 2

\* C12: every run terminates: it returns or fails after at most max_steps
\* executed instructions; the step counter starts at 0, grows by exactly
\* one per executed instruction and never exceeds max_steps; a run that
\* reaches the end of its program within the budget returns its output.
C12_Terminates ==
  /\ (pc = "running") ~> (pc \in {"returned", "raised"})
  /\ [](pc = "running" => steps \in 0..max_steps)
  /\ [][(pc # "running" /\ pc' = "running") => steps' = 0]_vars
  /\ [][(pc = "running" /\ pc' = "running") => steps' = steps + 1]_vars
  /\ [][(pc = "running" /\ ip = Len(program)) =>
          (pc' = "returned" /\ returned' # NoValue)]_vars

\* a run has been ended by the largest step limit of the model
C12_Witness ==
  /\ pc = "raised"
  /\ raised = RuntimeError(MaxSteps)
  /\ max_steps = MaxSteps

\* C16: constructing an interpreter fails with the configuration error
\* exactly when tape_size <= 0, before anything has run; otherwise it
\* succeeds with a tape of exactly tape_size cells, all 0, and the cursor
\* at 0.
C16_Constructor ==
  pc # "new" =>
    /\ (pc = "config_error") <=> (arg[1] <= 0)
    /\ pc = "config_error" =>
         (raised = ValueError /\ tape = <<>> /\ steps = 0 /\ runs = 0)
    /\ arg[1] > 0 =>
         /\ pc = "idle"
         /\ raised = None
         /\ Len(tape) = arg[1]
         /\ \A i \in 1..arg[1] : tape[i] = 0
         /\ ptr = 0
         /\ max_steps = arg[2]
         /\ steps = 0 /\ runs = 0

\* the constructor has refused a tape of no cells
C16_Witness ==
  /\ pc = "config_error"
  /\ arg[1] = 0
  /\ raised = ValueError

\* no character of t has code 0
NulFree(t) == \A i \in 1..Len(t) : CharCode[t[i]] # 0

\* C13: the program ",[.,]" returns exactly its input, for every input
\* without a character of code 0 (the empty input gives the empty output),
\* provided the step limit leaves it the 3 * len(input) + 2 steps it takes.
C13_CatCopies ==
  /\ [][(pc = "running" /\ pc' = "returned" /\ program = Cat /\ NulFree(inbuf))
          => returned' = inbuf]_vars
  /\ [][(pc = "running" /\ pc' = "raised" /\ program = Cat /\ NulFree(inbuf))
          => max_steps < 3 * Len(inbuf) + 2]_vars
  /\ [][(pc = "running" /\ pc' = "returned" /\ program = Cat /\ inbuf = <<>>)
          => returned' = <<>>]_vars

\* a call of cat has returned "hi"
C13_Witness ==
  /\ pc = "returned"
  /\ returned = <<"h", "i">>
  /\ raised = None

\* C14: when a call of run ends while another call on the same instance is
\* still in its dispatch loop, it ends with the outcome (the value returned
\* or the exception raised) that the same call has when nothing interleaves
\* with it.
C14_CallsIndependent ==
  [][(pc = "running" /\ pc' \in {"returned", "raised"} /\ other.pc = "running")
       => [returned |-> returned', raised |-> raised']
            = RunAlone(program, inbuf, Len(tape), max_steps)]_vars

====
